---- MODULE Spec2Model ----
(***************************************************************************)
(* Model of schooltool.db: PersistentKeysDict (IdentityKeyedStore),        *)
(* PersistentKeysSet and PersistentPairKeysDict (PairKeyedStore).          *)
(*                                                                         *)
(* A PersistentKeysDict keeps two dictionaries: _v_data (here tmpdata),    *)
(* keyed by id(key) and holding (key, value) pairs, and _data (here data), *)
(* keyed by key._p_oid.  While a key object is referenced from tmpdata its *)
(* id() is unique to it, so tmpdata is modelled as a map from the key      *)
(* object to the value.                                                    *)
(***************************************************************************)
EXTENDS Integers, Sequences, FiniteSets, TLC

\* ---- bounds ----
NumKeys == 2          \* persistent objects that can be used as keys
NumValues == 2        \* distinct values stored
NumSecondaries == 2   \* hashable second components of pair keys

\* ---- constants of the program ----
None == 0             \* Python's None (a _p_oid or _p_jar that is not set)
Jar == 1              \* the ZODB connection objects get added to

Keys == 1..NumKeys                \* objects with a _p_oid attribute
PlainKeys == {NumKeys + 1}        \* an object without a _p_oid attribute
AllKeys == Keys \cup PlainKeys
Values == 1..NumValues
Secondaries == 1..NumSecondaries
Refs == 1..(2 * NumKeys)          \* addresses of inner dict objects

VARIABLES
    p_oid,      \* key._p_oid of every persistent key object
    p_jar,      \* self._p_jar of the PersistentKeysDict
    tmpdata,    \* self._tmpdata (_v_data): key object -> value
    data,       \* self._data: oid -> value
    heap,       \* contents of the inner dict objects of a pair dict: ref -> (hashable -> value)
    last        \* the last call, its arguments and what it returned or raised

vars == <<p_oid, p_jar, tmpdata, data, heap, last>>

\* ---- Python dicts as functions with a varying domain ----
EmptyDict == <<>>
Put(d, k, v) == [x \in (DOMAIN d) \cup {k} |-> IF x = k THEN v ELSE d[x]]
Del(d, k) == [x \in (DOMAIN d) \ {k} |-> d[x]]
Range(d) == {d[x] : x \in DOMAIN d}

\* ---- outcomes of an operation ----
Ok(v) == [kind |-> "ok", val |-> v]
KeyError == [kind |-> "KeyError", val |-> None]
TypeError == [kind |-> "TypeError", val |-> None]
AssertionError == [kind |-> "AssertionError", val |-> None]
AttributeError == [kind |-> "AttributeError", val |-> None]
Bool(b) == IF b THEN 1 ELSE 0

Op(name, key, sec, val, res) ==
    [op |-> name, key |-> key, sec |-> sec, val |-> val, res |-> res, state |-> <<>>]

\* last.val of a getstate call is the number of entries that were staged
\* when it was called; last.state is then the state it returned

\* the two dictionaries of one PersistentKeysDict
self == [tmp |-> tmpdata, data |-> data]

\* ---- PersistentKeysDict ----
checkKey(key) == key \in Keys

\* mutant of setitem: the test "or self._p_jar is None" is missing
setitem_nojartest(s, key, value) ==
    IF p_oid[key] = None
    THEN [s EXCEPT !.tmp = Put(@, key, value)]
    ELSE [s EXCEPT !.data = Put(@, p_oid[key], value)]

setitem(s, key, value) ==
    IF p_oid[key] = None \/ p_jar = None
    THEN [s EXCEPT !.tmp = Put(@, key, value)]
    ELSE [s EXCEPT !.data = Put(@, p_oid[key], value)]

getitem(s, key) ==
    IF key \in DOMAIN s.tmp
    THEN Ok(s.tmp[key])
    ELSE IF p_oid[key] \in DOMAIN s.data
         THEN Ok(s.data[p_oid[key]])
         ELSE KeyError

delitem(s, key) ==
    IF key \in DOMAIN s.tmp
    THEN [s EXCEPT !.tmp = Del(@, key)]
    ELSE [s EXCEPT !.data = Del(@, p_oid[key])]

contains(s, key) ==
    key \in DOMAIN s.tmp \/ p_oid[key] \in DOMAIN s.data

len(s) == Cardinality(DOMAIN s.data) + Cardinality(DOMAIN s.tmp)

\* jar.get(oid): the object the connection registered under oid
jar_get(oid) == CHOOSE k \in Keys : p_oid[k] = oid

\* keys() and __iter__: the persisted keys resolved through the jar, then the
\* staged keys; dorder and torder are the iteration orders of the two dicts
keys(s, dorder, torder) ==
    [i \in 1..Len(dorder) |-> jar_get(dorder[i])] \o torder

\* jar.add(key): the connection gives the object the next unused oid
new_oid(oids) == 1 + Cardinality({k \in Keys : oids[k] # None})
jar_add(oids, key) == [oids EXCEPT ![key] = new_oid(oids)]

\* the orders in which a dict keyed by id(key) can be iterated
Orders(S) == {f \in [1..Cardinality(S) -> S] : \A i, j \in DOMAIN f : f[i] = f[j] => i = j}

\* mutant of getstate_loop: "data[key._p_oid] = value" indented under the if,
\* so that only the keys the loop attaches itself are moved
RECURSIVE getstate_loop_indented(_, _, _, _, _)
getstate_loop_indented(order, i, oids, d, tmp) ==
    IF i > Len(order)
    THEN [oids |-> oids, data |-> d]
    ELSE LET key == order[i]
         IN IF oids[key] = None
            THEN LET oids1 == jar_add(oids, key)
                 IN getstate_loop_indented(order, i + 1, oids1, Put(d, oids1[key], tmp[key]), tmp)
            ELSE getstate_loop_indented(order, i + 1, oids, d, tmp)

\* the loop of __getstate__ over self._tmpdata.itervalues(), from position i
RECURSIVE getstate_loop(_, _, _, _, _)
getstate_loop(order, i, oids, d, tmp) ==
    IF i > Len(order)
    THEN [oids |-> oids, data |-> d]
    ELSE LET key == order[i]
             oids1 == IF oids[key] = None THEN jar_add(oids, key) ELSE oids
         IN getstate_loop(order, i + 1, oids1, Put(d, oids1[key], tmp[key]), tmp)

\* mutant of getstate: staging is cleared without the loop that moves it
getstate_noflush(s, order) == [oids |-> p_oid, tmp |-> EmptyDict, data |-> s.data]

\* __getstate__ after its assertion: the loop, then self._tmpdata.clear()
getstate(s, order) ==
    LET r == getstate_loop(order, 1, p_oid, s.data, s.tmp)
    IN [oids |-> r.oids, tmp |-> EmptyDict, data |-> r.data]

\* Persistent.__getstate__: the saved state holds _data by value (an inner
\* dict is saved with its contents) and nothing of _v_data
pickle(d) == [o \in DOMAIN d |-> IF d[o] \in DOMAIN heap THEN heap[d[o]] ELSE d[o]]

TypeOK ==
    /\ p_oid \in [Keys -> {None} \cup (1..NumKeys)]
    /\ p_jar \in {None, Jar}
    /\ DOMAIN tmpdata \subseteq Keys
    /\ DOMAIN data \subseteq 1..NumKeys

Init ==
    /\ p_oid = [k \in Keys |-> None]
    /\ p_jar = None
    /\ tmpdata = EmptyDict
    /\ data = EmptyDict
    /\ heap = EmptyDict
    /\ last = Op("init", None, None, None, Ok(None))

\* ---- environment: the connection attaches objects ----
AttachContainer ==
    /\ p_jar = None
    /\ p_jar' = Jar
    /\ last' = Op("attach_container", None, None, None, Ok(None))
    /\ UNCHANGED <<p_oid, tmpdata, data, heap>>

AttachKey(key) ==
    /\ p_oid[key] = None
    /\ p_oid' = jar_add(p_oid, key)
    /\ last' = Op("attach_key", key, None, None, Ok(None))
    /\ UNCHANGED <<p_jar, tmpdata, data, heap>>

\* ---- operations of PersistentKeysDict ----
\* mutant of SetItem: the key is added to self._p_jar by the set call, as the
\* docstring of __setitem__ words it
SetItem_attaching(key, value) ==
    /\ IF ~checkKey(key)
       THEN /\ last' = Op("setitem", key, None, value, TypeError)
            /\ UNCHANGED <<p_oid, tmpdata, data>>
       ELSE IF p_jar = None
       THEN /\ tmpdata' = Put(tmpdata, key, value)
            /\ last' = Op("setitem", key, None, value, Ok(None))
            /\ UNCHANGED <<p_oid, data>>
       ELSE /\ p_oid' = IF p_oid[key] = None THEN jar_add(p_oid, key) ELSE p_oid
            /\ data' = Put(data, p_oid'[key], value)
            /\ last' = Op("setitem", key, None, value, Ok(None))
            /\ UNCHANGED tmpdata
    /\ UNCHANGED <<p_jar, heap>>

\* mutant of SetItem: no call of checkKey, so that key._p_oid raises
SetItem_nocheck(key, value) ==
    /\ IF key \notin Keys
       THEN /\ last' = Op("setitem", key, None, value, AttributeError)
            /\ UNCHANGED <<tmpdata, data>>
       ELSE LET s == setitem(self, key, value)
            IN /\ tmpdata' = s.tmp
               /\ data' = s.data
               /\ last' = Op("setitem", key, None, value, Ok(None))
    /\ UNCHANGED <<p_oid, p_jar, heap>>

SetItem(key, value) ==
    /\ IF ~checkKey(key)
       THEN /\ last' = Op("setitem", key, None, value, TypeError)
            /\ UNCHANGED <<tmpdata, data>>
       ELSE LET s == setitem(self, key, value)
            IN /\ tmpdata' = s.tmp
               /\ data' = s.data
               /\ last' = Op("setitem", key, None, value, Ok(None))
    /\ UNCHANGED <<p_oid, p_jar, heap>>

GetItem(key) ==
    /\ last' = Op("getitem", key, None, None,
                  IF ~checkKey(key) THEN TypeError ELSE getitem(self, key))
    /\ UNCHANGED <<p_oid, p_jar, tmpdata, data, heap>>

DelItem(key) ==
    /\ IF ~checkKey(key)
       THEN /\ last' = Op("delitem", key, None, None, TypeError)
            /\ UNCHANGED <<tmpdata, data>>
       ELSE IF ~contains(self, key)
       THEN /\ last' = Op("delitem", key, None, None, KeyError)
            /\ UNCHANGED <<tmpdata, data>>
       ELSE LET s == delitem(self, key)
            IN /\ tmpdata' = s.tmp
               /\ data' = s.data
               /\ last' = Op("delitem", key, None, None, Ok(None))
    /\ UNCHANGED <<p_oid, p_jar, heap>>

Contains(key) ==
    /\ last' = Op("contains", key, None, None,
                  IF ~checkKey(key) THEN TypeError ELSE Ok(Bool(contains(self, key))))
    /\ UNCHANGED <<p_oid, p_jar, tmpdata, data, heap>>

KeysOp ==
    /\ IF p_jar = None /\ DOMAIN data # {}
       THEN last' = Op("keys", None, None, None, AttributeError)
       ELSE \E n \in {Len(keys(self, dorder, torder)) :
                           dorder \in Orders(DOMAIN data), torder \in Orders(DOMAIN tmpdata)} :
               last' = Op("keys", None, None, None, Ok(n))
    /\ UNCHANGED <<p_oid, p_jar, tmpdata, data, heap>>

Length ==
    /\ last' = Op("len", None, None, None, Ok(len(self)))
    /\ UNCHANGED <<p_oid, p_jar, tmpdata, data, heap>>

\* mutant of GetState: the assertion is gone and the loop runs as if the
\* container had a connection
GetState_noassert ==
    /\ \E r \in {getstate(self, order) : order \in Orders(DOMAIN tmpdata)} :
             /\ p_oid' = r.oids
             /\ tmpdata' = r.tmp
             /\ data' = r.data
             /\ last' = [Op("getstate", None, None, Cardinality(DOMAIN tmpdata), Ok(None))
                           EXCEPT !.state = pickle(r.data)]
    /\ UNCHANGED <<p_jar, heap>>

GetState ==
    /\ IF p_jar = None
       THEN /\ last' = Op("getstate", None, None, Cardinality(DOMAIN tmpdata), AssertionError)
            /\ UNCHANGED <<p_oid, tmpdata, data>>
       ELSE \E r \in {getstate(self, order) : order \in Orders(DOMAIN tmpdata)} :
                  /\ p_oid' = r.oids
                  /\ tmpdata' = r.tmp
                  /\ data' = r.data
                  /\ last' = [Op("getstate", None, None, Cardinality(DOMAIN tmpdata), Ok(None))
                                EXCEPT !.state = pickle(r.data)]
    /\ UNCHANGED <<p_jar, heap>>

\* the container loaded again from the state __getstate__ just returned:
\* no _v_data attribute, _data as saved, and the connection that loaded it
Load ==
    /\ last.op = "getstate" /\ last.res.kind = "ok"
    /\ tmpdata' = EmptyDict
    /\ data' = last.state
    /\ p_jar' = Jar
    /\ last' = Op("load", None, None, None, Ok(None))
    /\ UNCHANGED <<p_oid, heap>>

Next ==
    \/ AttachContainer
    \/ \E key \in Keys : AttachKey(key)
    \/ \E key \in AllKeys, value \in Values : SetItem(key, value)
    \/ \E key \in AllKeys : GetItem(key)
    \/ \E key \in AllKeys : DelItem(key)
    \/ \E key \in AllKeys : Contains(key)
    \/ Length
    \/ KeysOp
    \/ GetState
    \/ Load

Spec == Init /\ [][Next]_vars

\* ---- PersistentPairKeysDict over its own PersistentKeysDict (self._data) ----
\* the PersistentKeysDict of the pair dict together with the inner dict objects
pself == [tmp |-> tmpdata, data |-> data, heap |-> heap]

\* the address a new dict object gets: one that no live object has
new_ref(s) == CHOOSE r \in Refs : r \notin DOMAIN s.heap /\ \A q \in Refs : q < r => q \in DOMAIN s.heap

\* dict objects no longer referenced from either dictionary are freed
collect(s) == [s EXCEPT !.heap = [r \in (Range(s.tmp) \cup Range(s.data)) \cap DOMAIN s.heap |-> s.heap[r]]]

\* mutant of pair_setitem: a new dict with the one entry is assigned, not
\* the dict fetched from self._data
pair_setitem_fresh(s, persistent, hashable, value) ==
    LET r == new_ref(s)
        s1 == [s EXCEPT !.heap = Put(@, r, Put(EmptyDict, hashable, value))]
    IN collect(setitem(s1, persistent, r))

\* mutant of pair_setitem: the dict is changed in place and not assigned again
pair_setitem_noreassign(s, persistent, hashable, value) ==
    LET s1 == IF ~contains(s, persistent)
              THEN LET r == new_ref(s)
                   IN setitem([s EXCEPT !.heap = Put(@, r, EmptyDict)], persistent, r)
              ELSE s
        d == getitem(s1, persistent).val
    IN collect([s1 EXCEPT !.heap[d] = Put(@, hashable, value)])

pair_setitem(s, persistent, hashable, value) ==
    LET s1 == IF ~contains(s, persistent)
              THEN LET r == new_ref(s)
                   IN setitem([s EXCEPT !.heap = Put(@, r, EmptyDict)], persistent, r)
              ELSE s
        d == getitem(s1, persistent).val
        s2 == [s1 EXCEPT !.heap[d] = Put(@, hashable, value)]
    IN collect(setitem(s2, persistent, d))

\* __delitem__ once self._data[persistent] and d[hashable] are known to exist
pair_delitem(s, persistent, hashable) ==
    LET d == getitem(s, persistent).val
        s1 == [s EXCEPT !.heap[d] = Del(@, hashable)]
    IN collect(IF DOMAIN s1.heap[d] # {}
               THEN setitem(s1, persistent, d)
               ELSE delitem(s1, persistent))

\* self._data[persistent][hashable]
pair_getitem(s, persistent, hashable) ==
    IF ~contains(s, persistent)
    THEN KeyError
    ELSE LET d == getitem(s, persistent).val
         IN IF hashable \in DOMAIN s.heap[d] THEN Ok(s.heap[d][hashable]) ELSE KeyError

pair_contains(s, persistent, hashable) ==
    contains(s, persistent) /\ hashable \in DOMAIN s.heap[getitem(s, persistent).val]

\* __len__: the sum of len(data[persistent]) over the primaries that the
\* iteration over self._data yields, ks, from position i
RECURSIVE pair_len(_, _, _)
pair_len(s, ks, i) ==
    IF i > Len(ks)
    THEN 0
    ELSE Cardinality(DOMAIN s.heap[getitem(s, ks[i]).val]) + pair_len(s, ks, i + 1)

\* the hashables of dict d in the order horder gives to all hashables
inner_keys(d, horder) == SelectSeq(horder, LAMBDA h : h \in DOMAIN d)

\* keys() and __iter__: for every primary that the iteration over self._data
\* yields, the pairs with the hashables of its inner dict
RECURSIVE pair_keys(_, _, _, _)
pair_keys(s, ks, i, horder) ==
    IF i > Len(ks)
    THEN << >>
    ELSE LET hs == inner_keys(s.heap[getitem(s, ks[i]).val], horder)
         IN [j \in 1..Len(hs) |-> <<ks[i], hs[j]>>] \o pair_keys(s, ks, i + 1, horder)

\* what the iteration over self._data can yield
outer_keys == {keys(self, dorder, torder) :
                  dorder \in Orders(DOMAIN data), torder \in Orders(DOMAIN tmpdata)}

PairSetItem(persistent, hashable, value) ==
    /\ IF ~checkKey(persistent)
       THEN /\ last' = Op("pair_setitem", persistent, hashable, value, TypeError)
            /\ UNCHANGED <<tmpdata, data, heap>>
       ELSE LET s == pair_setitem(pself, persistent, hashable, value)
            IN /\ tmpdata' = s.tmp
               /\ data' = s.data
               /\ heap' = s.heap
               /\ last' = Op("pair_setitem", persistent, hashable, value, Ok(None))
    /\ UNCHANGED <<p_oid, p_jar>>

\* mutant of PairDelItem: a hashable that is not in the inner dict is passed
\* over (d.pop(hashable, None)) and the call goes on
PairDelItem_pop(persistent, hashable) ==
    /\ IF ~checkKey(persistent)
       THEN /\ last' = Op("pair_delitem", persistent, hashable, None, TypeError)
            /\ UNCHANGED <<tmpdata, data, heap>>
       ELSE IF ~contains(pself, persistent)
       THEN /\ last' = Op("pair_delitem", persistent, hashable, None, KeyError)
            /\ UNCHANGED <<tmpdata, data, heap>>
       ELSE LET s == pair_delitem(pself, persistent, hashable)
            IN /\ tmpdata' = s.tmp
               /\ data' = s.data
               /\ heap' = s.heap
               /\ last' = Op("pair_delitem", persistent, hashable, None, Ok(None))
    /\ UNCHANGED <<p_oid, p_jar>>

PairDelItem(persistent, hashable) ==
    /\ IF ~checkKey(persistent)
       THEN /\ last' = Op("pair_delitem", persistent, hashable, None, TypeError)
            /\ UNCHANGED <<tmpdata, data, heap>>
       ELSE IF \/ ~contains(pself, persistent)
               \/ hashable \notin DOMAIN heap[getitem(pself, persistent).val]
       THEN /\ last' = Op("pair_delitem", persistent, hashable, None, KeyError)
            /\ UNCHANGED <<tmpdata, data, heap>>
       ELSE LET s == pair_delitem(pself, persistent, hashable)
            IN /\ tmpdata' = s.tmp
               /\ data' = s.data
               /\ heap' = s.heap
               /\ last' = Op("pair_delitem", persistent, hashable, None, Ok(None))
    /\ UNCHANGED <<p_oid, p_jar>>

PairGetItem(persistent, hashable) ==
    /\ last' = Op("pair_getitem", persistent, hashable, None,
                  IF ~checkKey(persistent) THEN TypeError
                  ELSE pair_getitem(pself, persistent, hashable))
    /\ UNCHANGED <<p_oid, p_jar, tmpdata, data, heap>>

PairContains(persistent, hashable) ==
    /\ last' = Op("pair_contains", persistent, hashable, None,
                  IF ~checkKey(persistent) THEN TypeError
                  ELSE Ok(Bool(pair_contains(pself, persistent, hashable))))
    /\ UNCHANGED <<p_oid, p_jar, tmpdata, data, heap>>

PairLength ==
    /\ IF p_jar = None /\ DOMAIN data # {}
       THEN last' = Op("pair_len", None, None, None, AttributeError)
       ELSE \E n \in {pair_len(pself, ks, 1) : ks \in outer_keys} :
               last' = Op("pair_len", None, None, None, Ok(n))
    /\ UNCHANGED <<p_oid, p_jar, tmpdata, data, heap>>

PairKeys ==
    /\ IF p_jar = None /\ DOMAIN data # {}
       THEN last' = Op("pair_keys", None, None, None, AttributeError)
       ELSE \E n \in {Len(pair_keys(pself, ks, 1, horder)) :
                           ks \in outer_keys, horder \in Orders(Secondaries)} :
               last' = Op("pair_keys", None, None, None, Ok(n))
    /\ UNCHANGED <<p_oid, p_jar, tmpdata, data, heap>>

NextPair ==
    \/ AttachContainer
    \/ \E key \in Keys : AttachKey(key)
    \/ \E key \in AllKeys, hashable \in Secondaries, value \in Values :
          PairSetItem(key, hashable, value)
    \/ \E key \in AllKeys, hashable \in Secondaries : PairDelItem(key, hashable)
    \/ \E key \in AllKeys, hashable \in Secondaries : PairGetItem(key, hashable)
    \/ \E key \in AllKeys, hashable \in Secondaries : PairContains(key, hashable)
    \/ PairLength
    \/ PairKeys
    \/ GetState

SpecPair == Init /\ [][NextPair]_vars

\* ---- PersistentKeysSet over its own PersistentKeysDict (self._data) ----
\* mutant of Add: no membership test before the assignment
Add_always(item) ==
    /\ IF ~checkKey(item)
       THEN /\ last' = Op("add", item, None, None, TypeError)
            /\ UNCHANGED <<tmpdata, data>>
       ELSE LET s == setitem(self, item, None)
            IN /\ tmpdata' = s.tmp
               /\ data' = s.data
               /\ last' = Op("add", item, None, None, Ok(None))
    /\ UNCHANGED <<p_oid, p_jar, heap>>

Add(item) ==
    /\ IF ~checkKey(item)
       THEN /\ last' = Op("add", item, None, None, TypeError)
            /\ UNCHANGED <<tmpdata, data>>
       ELSE IF contains(self, item)
       THEN /\ last' = Op("add", item, None, None, Ok(None))
            /\ UNCHANGED <<tmpdata, data>>
       ELSE LET s == setitem(self, item, None)
            IN /\ tmpdata' = s.tmp
               /\ data' = s.data
               /\ last' = Op("add", item, None, None, Ok(None))
    /\ UNCHANGED <<p_oid, p_jar, heap>>

\* mutant of Remove: the entry is looked for under item._p_oid only
Remove_by_oid(item) ==
    /\ IF ~checkKey(item)
       THEN /\ last' = Op("remove", item, None, None, TypeError)
            /\ UNCHANGED <<tmpdata, data>>
       ELSE IF ~contains(self, item)
       THEN /\ last' = Op("remove", item, None, None, KeyError)
            /\ UNCHANGED <<tmpdata, data>>
       ELSE /\ data' = Del(data, p_oid[item])
            /\ last' = Op("remove", item, None, None, Ok(None))
            /\ UNCHANGED tmpdata
    /\ UNCHANGED <<p_oid, p_jar, heap>>

Remove(item) ==
    /\ IF ~checkKey(item)
       THEN /\ last' = Op("remove", item, None, None, TypeError)
            /\ UNCHANGED <<tmpdata, data>>
       ELSE IF ~contains(self, item)
       THEN /\ last' = Op("remove", item, None, None, KeyError)
            /\ UNCHANGED <<tmpdata, data>>
       ELSE LET s == delitem(self, item)
            IN /\ tmpdata' = s.tmp
               /\ data' = s.data
               /\ last' = Op("remove", item, None, None, Ok(None))
    /\ UNCHANGED <<p_oid, p_jar, heap>>

\* PersistentKeysSet.__len__ and __iter__ hand over to the dict
SetLength ==
    /\ last' = Op("set_len", None, None, None, Ok(len(self)))
    /\ UNCHANGED <<p_oid, p_jar, tmpdata, data, heap>>

SetIter ==
    /\ IF p_jar = None /\ DOMAIN data # {}
       THEN last' = Op("set_iter", None, None, None, AttributeError)
       ELSE \E n \in {Len(keys(self, dorder, torder)) :
                           dorder \in Orders(DOMAIN data), torder \in Orders(DOMAIN tmpdata)} :
               last' = Op("set_iter", None, None, None, Ok(n))
    /\ UNCHANGED <<p_oid, p_jar, tmpdata, data, heap>>

NextSet ==
    \/ AttachContainer
    \/ \E key \in Keys : AttachKey(key)
    \/ \E item \in AllKeys : Add(item)
    \/ \E item \in AllKeys : Remove(item)
    \/ SetLength
    \/ SetIter
    \/ GetState

SpecSet == Init /\ [][NextSet]_vars

\* ======================================================================
\* Claims about PersistentKeysDict, checked under Spec
\* ======================================================================

staged(key) == key \in DOMAIN tmpdata
persisted(key) == p_oid[key] \in DOMAIN data
present == {k \in Keys : contains(self, k)}

\* C1 (invariant I1): every key present in the container is held in exactly
\* one of the two partitions, staging or persisted, never in both.
C1_ExactlyOnePartition ==
    \A k \in Keys : contains(self, k) => (staged(k) /\ ~persisted(k)) \/ (persisted(k) /\ ~staged(k))

\* C2: set(k, v) immediately followed by get(k) returns v, in every state.
C2_SetThenGet ==
    (last.op = "setitem" /\ last.res.kind = "ok") => getitem(self, last.key) = Ok(last.val)

\* C3: after a successful delete(k), contains(k) is false and get(k) fails
\* with KeyError; a delete that failed with KeyError was of an absent key.
C3_DeleteThenAbsent ==
    /\ (last.op = "delitem" /\ last.res.kind = "ok") =>
           ~contains(self, last.key) /\ getitem(self, last.key) = KeyError
    /\ (last.op = "delitem" /\ last.res.kind = "KeyError") => ~contains(self, last.key)

\* C4: a flush of an attached container empties staging, leaves every key
\* that was staged with an oid, and get(k) returns after the flush what it
\* returned before it, for every key present before the flush.
C4_FlushPreserves ==
    [][(last'.op = "getstate" /\ last'.res.kind = "ok") =>
          /\ tmpdata' = EmptyDict
          /\ \A k \in DOMAIN tmpdata : p_oid'[k] # None
          /\ \A k \in Keys : contains(self, k) => getitem(self, k)' = getitem(self, k)]_vars

\* a flush that moved at least two staged entries has happened
C4_Witness ==
    /\ last.op = "getstate" /\ last.res.kind = "ok" /\ last.val >= 2
    /\ Cardinality(DOMAIN data) >= 2

\* C5: length() equals the number of distinct keys for which contains is true.
C5_LenCountsPresent ==
    len(self) = Cardinality(present)

C8_FlushUnattachedFails ==
    [][(last'.op = "getstate" /\ p_jar = None) =>
          /\ last'.res.kind = "AssertionError"
          /\ UNCHANGED <<tmpdata, data, p_oid, p_jar>>]_vars

\* a flush of an unattached container with staged entries has failed
C8_Witness ==
    /\ last.op = "getstate" /\ last.res.kind = "AssertionError"
    /\ p_jar = None /\ tmpdata # EmptyDict

\* C9: the state a flush returns holds, under its oid, every entry that was
\* present before the call with the value get returned then, and nothing
\* else; the container loaded from it has an empty staging and get returns
\* the saved value for every saved key.
C9_SnapshotRoundTrip ==
    [][/\ (last'.op = "getstate" /\ last'.res.kind = "ok") =>
             /\ DOMAIN last'.state = {p_oid'[k] : k \in present}
             /\ \A k \in present : Ok(last'.state[p_oid'[k]]) = getitem(self, k)
       /\ (last'.op = "load" /\ last.op = "getstate") =>
             /\ tmpdata' = EmptyDict
             /\ \A k \in Keys : p_oid[k] \in DOMAIN last.state =>
                    getitem(self, k)' = Ok(last.state[p_oid[k]])]_vars

\* a container has been loaded from a state with two entries
C9_Witness ==
    last.op = "load" /\ Cardinality(DOMAIN data) >= 2 /\ tmpdata = EmptyDict

\* C10: set, get, delete and contains of a key without a _p_oid attribute
\* fail with TypeError and change nothing.
C10_InvalidKeyRejected ==
    [][(last'.op \in {"setitem", "getitem", "delitem", "contains"} /\ last'.key \notin Keys) =>
          /\ last'.res.kind = "TypeError"
          /\ UNCHANGED <<tmpdata, data, p_oid, p_jar>>]_vars

\* a set with a key that has no _p_oid has failed on a container with entries
C10_Witness ==
    /\ last.op = "setitem" /\ last.key \in PlainKeys /\ last.res.kind = "TypeError"
    /\ tmpdata # EmptyDict

C16_KeysEachOnce ==
    \A dorder \in Orders(DOMAIN data), torder \in Orders(DOMAIN tmpdata) :
        LET ks == keys(self, dorder, torder)
        IN /\ \A k \in present : Cardinality({i \in DOMAIN ks : ks[i] = k}) = 1
           /\ Range(ks) \subseteq present

\* C19: entries are persisted only in a container that has a connection, no
\* entry is persisted under None, every oid persisted under is the oid of a
\* key object, and keys() never fails for want of a connection.
C19_PersistedNeedsJar ==
    /\ DOMAIN data # {} => p_jar # None
    /\ None \notin DOMAIN data
    /\ \A o \in DOMAIN data : \E k \in Keys : p_oid[k] = o
    /\ last.op = "keys" => last.res.kind = "ok"

\* keys() has been called on a container with persisted entries
C19_Witness ==
    last.op = "keys" /\ last.res.kind = "ok" /\ DOMAIN data # {} /\ p_jar # None

\* C20: a flush changes neither length() nor the set of keys contains is
\* true for, and a flush right after a successful flush changes nothing.
C20_FlushNeutral ==
    [][(last'.op = "getstate" /\ last'.res.kind = "ok") =>
          /\ len(self)' = len(self)
          /\ present' = present
          /\ (last.op = "getstate" /\ last.res.kind = "ok") =>
                 UNCHANGED <<tmpdata, data, p_oid>>]_vars

\* ======================================================================
\* Claims about PersistentPairKeysDict, checked under SpecPair
\* ======================================================================

\* C6 (invariant I4): no primary is stored in the underlying dict with an
\* empty inner dict, and after the delete of the last entry under a primary
\* the primary is no longer among the keys of the underlying dict.
C6_NoEmptyInner ==
    /\ \A r \in Range(tmpdata) \cup Range(data) : heap[r] # EmptyDict
    /\ (last.op = "pair_delitem" /\ last.res.kind = "ok" /\ contains(self, last.key)) =>
           heap[getitem(self, last.key).val] # EmptyDict

Pairs == Keys \X Secondaries
present_pairs == {pr \in Pairs : pair_contains(pself, pr[1], pr[2])}

\* the inner dict the underlying dict returns for a primary, {} if it has none
inner(persistent) ==
    IF contains(pself, persistent) THEN heap[getitem(pself, persistent).val] ELSE EmptyDict

\* C11: after set((p,s),v), get((p,s)) returns v and get of every other
\* pair returns what it returned before; delete of a present pair succeeds,
\* makes contains((p,s)) false and leaves get of every other pair as it was.
C11_PairSetDelete ==
    [][\A p \in Keys, h \in Secondaries :
          (last'.key = p /\ last'.sec = h) =>
             /\ (last'.op = "pair_setitem" /\ last'.res.kind = "ok") =>
                   /\ pair_getitem(pself, p, h)' = Ok(last'.val)
                   /\ \A pr \in Pairs \ {<<p, h>>} :
                          pair_getitem(pself, pr[1], pr[2])' = pair_getitem(pself, pr[1], pr[2])
             /\ (last'.op = "pair_delitem" /\ pair_contains(pself, p, h)) =>
                   /\ last'.res.kind = "ok"
                   /\ ~pair_contains(pself, p, h)'
                   /\ \A pr \in Pairs \ {<<p, h>>} :
                          pair_getitem(pself, pr[1], pr[2])' = pair_getitem(pself, pr[1], pr[2])]_vars

\* a pair has been deleted while pairs under two primaries remain
C11_Witness ==
    /\ last.op = "pair_delitem" /\ last.res.kind = "ok"
    /\ Cardinality({pr[1] : pr \in present_pairs}) >= 2

\* C12: get and delete of a pair whose primary is absent, or whose
\* secondary is absent under a present primary, fail with KeyError and
\* leave the underlying dict and every inner dict unchanged.
C12_PairKeyError ==
    [][(/\ last'.op \in {"pair_getitem", "pair_delitem"} /\ last'.key \in Keys
        /\ ~pair_contains(pself, last'.key, last'.sec)) =>
          /\ last'.res.kind = "KeyError"
          /\ UNCHANGED <<tmpdata, data, heap, p_oid, p_jar>>]_vars

\* a delete has failed on a secondary absent under a present primary
C12_Witness ==
    /\ last.op = "pair_delitem" /\ last.res.kind = "KeyError"
    /\ contains(pself, last.key) /\ inner(last.key) # EmptyDict

\* C17: after a set, and after a delete that leaves the inner dict
\* non-empty, the partition that __setitem__ of the underlying dict writes
\* to for the primary holds the inner dict with the change made, and so
\* does the inner dict the underlying dict returns for the primary.
C17_MutateThenReassign ==
    [][\A p \in Keys, h \in Secondaries :
          LET after == IF last'.op = "pair_setitem"
                       THEN Put(inner(p), h, last'.val)
                       ELSE Del(inner(p), h)
          IN (/\ last'.key = p /\ last'.sec = h
              /\ last'.op \in {"pair_setitem", "pair_delitem"}
              /\ last'.res.kind = "ok"
              /\ after # EmptyDict) =>
                /\ inner(p)' = after
                /\ IF p_oid[p] = None \/ p_jar = None
                   THEN p \in DOMAIN tmpdata' /\ heap'[tmpdata'[p]] = after
                   ELSE p_oid[p] \in DOMAIN data' /\ heap'[data'[p_oid[p]]] = after]_vars

\* a set has assigned the inner dict of a staged primary under its oid
C17_Witness ==
    /\ last.op = "pair_setitem" /\ last.res.kind = "ok"
    /\ staged(last.key) /\ persisted(last.key)
    /\ Cardinality(DOMAIN inner(last.key)) >= 2

\* C18: length() is the number of pairs contains is true for, and keys()
\* yields each of them exactly once and nothing else, in whatever order
\* the dictionaries are iterated.
C18_PairLenAndKeys ==
    \A ks \in outer_keys :
        /\ pair_len(pself, ks, 1) = Cardinality(present_pairs)
        /\ \A horder \in Orders(Secondaries) :
              LET L == pair_keys(pself, ks, 1, horder)
              IN /\ \A pr \in present_pairs : Cardinality({i \in DOMAIN L : L[i] = pr}) = 1
                 /\ Range(L) \subseteq present_pairs

\* ======================================================================
\* Claims about PersistentKeysSet, checked under SpecSet
\* ======================================================================

\* the items an iteration over the set can yield, in any iteration order
yielded ==
    UNION {Range(keys(self, dorder, torder)) :
              dorder \in Orders(DOMAIN data), torder \in Orders(DOMAIN tmpdata)}

\* C13: add of an item that is already in the set changes neither the two
\* dictionaries nor length() nor what iteration yields.
C13_AddIdempotent ==
    [][(last'.op = "add" /\ last'.key \in Keys /\ contains(self, last'.key)) =>
          /\ last'.res.kind = "ok"
          /\ UNCHANGED <<tmpdata, data, p_oid>>
          /\ len(self)' = len(self)
          /\ yielded' = yielded]_vars

\* an item staged before it had an oid has been added again after the
\* connection attached it and the container
C13_Witness ==
    /\ last.op = "add" /\ last.key \in Keys /\ last.res.kind = "ok"
    /\ staged(last.key) /\ p_oid[last.key] # None /\ p_jar # None

\* C14: remove of an absent item fails with KeyError and changes nothing;
\* remove of a present item takes it out of what iteration yields and
\* lowers length() by exactly one.
C14_RemoveRemoves ==
    [][(last'.op = "remove" /\ last'.key \in Keys) =>
          IF contains(self, last'.key)
          THEN /\ last'.res.kind = "ok"
               /\ last'.key \notin yielded'
               /\ len(self)' = len(self) - 1
          ELSE /\ last'.res.kind = "KeyError"
               /\ UNCHANGED <<tmpdata, data, p_oid>>]_vars

\* a staged item whose key has been attached since has been removed
C14_Witness ==
    /\ last.op = "remove" /\ last.res.kind = "ok"
    /\ p_oid[last.key] # None /\ p_jar # None /\ len(self) >= 1

====
